---- MODULE Spec2Model ----
(***************************************************************************)
(* Model of source/crypto.c: the N-API binding of the streaming hash and   *)
(* HMAC engines (hash_md5_new, hash_sha256_new, hash_update, hash_digest,  *)
(* hmac_sha256_new, hmac_update, hmac_digest) and of the two collector     *)
(* callbacks s_hash_finalize / s_hmac_finalize.                            *)
(*                                                                         *)
(* A context is a record of the fields crypto.c reads (digest_size) plus   *)
(* the life-cycle state and accumulator kept by the digest library.  The   *)
(* library calls (aws_hash_update, aws_hash_finalize, aws_hash_destroy and *)
(* their HMAC twins) are not part of crypto.c; they are modelled from the  *)
(* capability interface of the specification.                              *)
(*                                                                         *)
(* Every binding function is one action.  The outcome of the calls into    *)
(* the host runtime (napi_get_cb_info, napi_create_external, ...) and of   *)
(* the allocator is an input of the action, drawn with \E.                 *)
(***************************************************************************)
EXTENDS Integers, Sequences, FiniteSets, TLC

\* ---------------------------------------------------------------- bounds
MaxCtx == 1          \* contexts ever allocated in one run of Spec
MaxPair == 2         \* contexts ever allocated in one run of PairSpec
MaxAcc == 2          \* bytes fed into one context

\* ------------------------------------------------------ program constants
AWS_MD5_LEN == 16
AWS_SHA256_LEN == 32
AWS_SHA256_HMAC_LEN == 32

\* ---------------------------------------------------------------- inputs
\* context slots: enough for the larger of the two allocation bounds
Slots == IF MaxCtx > MaxPair THEN MaxCtx ELSE MaxPair

CtxIds == 1..Slots

\* byte sequences a caller passes to update
Data == {<<>>, <<1>>, <<2>>, <<1, 2>>}

\* secrets a caller passes to hmac_sha256_new
Secrets == {<<5, 9>>}

\* A marshalled byte argument: ok = FALSE is a JS value that
\* aws_byte_buf_init_from_napi cannot turn into bytes.
BytesArg(b) == [ok |-> TRUE, bytes |-> b]
BadBytesArg == [ok |-> FALSE, bytes |-> <<>>]
DataArgs == {BytesArg(b) : b \in Data} \cup {BadBytesArg}
SecretArgs == {BytesArg(b) : b \in Secrets} \cup {BadBytesArg}

\* The second argument of hash_digest / hmac_digest as a JS value:
\* null or undefined ("absent"), a number that fits uint32_t, or any other
\* value ("other", e.g. a string).
Absent == [tag |-> "absent", v |-> 0]
Num(r) == [tag |-> "number", v |-> r]
Other == [tag |-> "other", v |-> 0]
TruncVals == {0, 5, 40}
TruncArgs == {Absent, Other} \cup {Num(r) : r \in TruncVals}

\* --------------------------------------------------------------- state
VARIABLES
    ctx,        \* ctx[c]: the aws_hash / aws_hmac object number c
    handle,     \* handle[c]: the napi external wrapping context c
    digests,    \* digests[c]: the dataview returned by the digest call on c
    secretBuf,  \* the transient aws_byte_buf `secret` of the last call
    ret         \* what the last binding call returned / threw

vars == <<ctx, handle, digests, secretBuf, ret>>

FreeCtx == [alg |-> "none", digest_size |-> 0, state |-> "FREE",
            acc |-> <<>>, key |-> <<>>, destroys |-> 0]

\* by: the binding function that returned the dataview
NoDigest == [emitted |-> FALSE, by |-> "none", bytes |-> <<>>]

NoSecretBuf == [state |-> "none", bytes |-> <<>>, secret |-> <<>>]

\* op: the binding function called; h: the context it resolved or
\* allocated (0: none);
\* pre: the state of that context at the call; exc: the exception pending
\* at return ("none": no exception); val: the kind of value returned
NoRet == [op |-> "none", h |-> 0, pre |-> "none", exc |-> "none",
          val |-> "null"]

Ret(op, h, pre, exc, val) ==
    [op |-> op, h |-> h, pre |-> pre, exc |-> exc, val |-> val]

\* number of contexts allocated so far; contexts are numbered in the order
\* of allocation
NumAllocated == Cardinality({c \in CtxIds : ctx[c].state # "FREE"})

KindOf(alg) == IF alg = "sha256_hmac" THEN "hmac"
               ELSE IF alg = "none" THEN "none" ELSE "hash"

Min(a, b) == IF a < b THEN a ELSE b

\* ------------------------------------------------- the digest library
\* (aws-c-cal, called by crypto.c; modelled from the capability interface
\* of the specification: init / update / finalize with a fixed digest_size
\* and the states ACTIVE, FINALIZED, DESTROYED)

DigestSize(alg) == IF alg = "md5" THEN AWS_MD5_LEN
                   ELSE IF alg = "sha256" THEN AWS_SHA256_LEN
                   ELSE IF alg = "sha256_hmac" THEN AWS_SHA256_HMAC_LEN
                   ELSE 0

AlgTag(alg) == IF alg = "md5" THEN 1 ELSE IF alg = "sha256" THEN 2 ELSE 3

\* a stand-in for the compression function: folds the bytes into one number
RECURSIVE Mix(_)
Mix(s) == IF s = <<>> THEN 7
          ELSE (Mix(SubSeq(s, 1, Len(s) - 1)) * 31 + s[Len(s)] + 1) % 251

\* the natural (untruncated) digest of what context c has accumulated
NaturalDigest(c) ==
    [i \in 1..c.digest_size |->
        (Mix(<<AlgTag(c.alg)>> \o c.key \o <<255>> \o c.acc) + 13 * i) % 256]

NewCtx(alg, key) == [alg |-> alg, digest_size |-> DigestSize(alg),
                     state |-> "ACTIVE", acc |-> <<>>, key |-> key,
                     destroys |-> 0]

aws_md5_new == NewCtx("md5", <<>>)
aws_sha256_new == NewCtx("sha256", <<>>)
aws_sha256_hmac_new(secret) == NewCtx("sha256_hmac", secret)

\* update: legal only while ACTIVE, appends to the accumulator
aws_hash_update(c, data) ==
    IF c.state = "ACTIVE"
    THEN [err |-> "none", c |-> [c EXCEPT !.acc = @ \o data]]
    ELSE [err |-> "InvalidStateError", c |-> c]

aws_hmac_update(c, data) ==
    IF c.state = "ACTIVE"
    THEN [err |-> "none", c |-> [c EXCEPT !.acc = @ \o data]]
    ELSE [err |-> "InvalidStateError", c |-> c]

\* finalize: legal only while ACTIVE, consumes the accumulator and writes
\* the leading truncate_to bytes of the natural digest
aws_hash_finalize(c, truncate_to) ==
    IF c.state = "ACTIVE"
    THEN [err |-> "none",
          c |-> [c EXCEPT !.state = "FINALIZED", !.acc = <<>>],
          out |-> SubSeq(NaturalDigest(c), 1, Min(truncate_to, c.digest_size))]
    ELSE [err |-> "InvalidStateError", c |-> c, out |-> <<>>]

aws_hmac_finalize(c, truncate_to) ==
    IF c.state = "ACTIVE"
    THEN [err |-> "none",
          c |-> [c EXCEPT !.state = "FINALIZED", !.acc = <<>>],
          out |-> SubSeq(NaturalDigest(c), 1, Min(truncate_to, c.digest_size))]
    ELSE [err |-> "InvalidStateError", c |-> c, out |-> <<>>]

\* destroy: releases the accumulator and the key
aws_hash_destroy(c) ==
    [c EXCEPT !.state = "DESTROYED", !.acc = <<>>, !.key = <<>>,
              !.destroys = @ + 1]

aws_hmac_destroy(c) ==
    [c EXCEPT !.state = "DESTROYED", !.acc = <<>>, !.key = <<>>,
              !.destroys = @ + 1]

\* ---------------------------------------------- byte buffers (aws-c-common)
Zeroes(n) == [i \in 1..n |-> 0]

\* the transient buffer aws_byte_buf_init_from_napi fills with the secret
aws_byte_buf_init_from_napi(secret) ==
    [state |-> "held", bytes |-> secret, secret |-> secret]

\* releases the memory; the bytes it held are not overwritten
aws_byte_buf_clean_up(buf) == [buf EXCEPT !.state = "released"]

\* overwrites the bytes with zeroes, then releases the memory
aws_byte_buf_clean_up_secure(buf) ==
    [buf EXCEPT !.state = "released", !.bytes = Zeroes(Len(@))]

\* ------------------------------------------------------ host runtime
aws_napi_is_null_or_undefined(arg) == arg.tag = "absent"

\* napi_get_value_uint32 into a uint32_t: succeeds on numbers only
napi_get_value_uint32(arg) ==
    IF arg.tag = "number"
    THEN [ok |-> TRUE, v |-> arg.v]
    ELSE [ok |-> FALSE, v |-> 0]

\* the values a caller can pass as first argument: a non-external value (0)
\* or an external it still holds
Handles == {0} \cup {c \in CtxIds : handle[c] = "reachable"}

StateOf(h) == IF h = 0 THEN "none" ELSE ctx[h].state

\* What a call through a handle of the other engine's type can do: the
\* pointer is used as if it had the expected type, which is undefined
\* behaviour; the build either runs the context's own operation or faults.
UBOutcomes(h, kind) ==
    IF h # 0 /\ KindOf(ctx[h].alg) # kind THEN {"proceed", "fault"}
    ELSE {"proceed"}

\* Which call into the host runtime or the allocator fails during one
\* binding call ("ok": none).
NewEnv == {"ok", "alloc", "external"}
HmacNewEnv == {"ok", "cb_info", "alloc", "external"}
UpdateEnv == {"ok", "cb_info"}
DigestEnv == {"ok", "cb_info", "arraybuffer", "dataview"}

\* ===================================================================
\* Hash
\* ===================================================================

\* Finalizer for a hash external: the caller has dropped its last reference
\* to the external and the collector runs the finalizer, once.
s_hash_finalize(c) ==
    /\ handle[c] = "reachable"
    /\ KindOf(ctx[c].alg) = "hash"
    /\ ctx' = [ctx EXCEPT ![c] = aws_hash_destroy(@)]
    /\ handle' = [handle EXCEPT ![c] = "collected"]
    /\ UNCHANGED <<digests, secretBuf, ret>>

\* the calls of a create function that reach a successful allocation
HashNewAllocates(env) == env # "alloc"

HmacNewAllocates(env, nargs, secret) ==
    env \in {"ok", "external"} /\ nargs = 1 /\ secret.ok

\* hash_md5_new handing out the object of the previous create call again
\* instead of the new one of line 42
hash_md5_new_cached(env) ==
    LET op == "hash_md5_new"
        c == IF NumAllocated = 0 THEN 1 ELSE NumAllocated
    IN
    /\ HashNewAllocates(env) => NumAllocated < Slots
    /\ IF env = "alloc"
       THEN /\ ret' = Ret(op, 0, "none", "none", "null")
            /\ secretBuf' = NoSecretBuf
            /\ UNCHANGED <<ctx, handle, digests>>
       ELSE IF env = "external"
       THEN /\ ctx' = [ctx EXCEPT ![c] = aws_md5_new]
            /\ ret' = Ret(op, c, "none", "ExternalError", "null")
            /\ secretBuf' = NoSecretBuf
            /\ UNCHANGED <<handle, digests>>
       ELSE /\ ctx' = [ctx EXCEPT ![c] = aws_md5_new]
            /\ handle' = [handle EXCEPT ![c] = "reachable"]
            /\ ret' = Ret(op, c, "none", "none", "external")
            /\ secretBuf' = NoSecretBuf
            /\ UNCHANGED digests

\* env = "alloc": aws_md5_new returns NULL; env = "external":
\* napi_create_external fails
hash_md5_new(env) ==
    LET op == "hash_md5_new"
        c == NumAllocated + 1
    IN
    /\ HashNewAllocates(env) => NumAllocated < Slots
    /\ IF env = "alloc"
       THEN /\ ret' = Ret(op, 0, "none", "none", "null")
            /\ secretBuf' = NoSecretBuf
            /\ UNCHANGED <<ctx, handle, digests>>
       ELSE IF env = "external"
       THEN /\ ctx' = [ctx EXCEPT ![c] = aws_md5_new]
            /\ ret' = Ret(op, c, "none", "ExternalError", "null")
            /\ secretBuf' = NoSecretBuf
            /\ UNCHANGED <<handle, digests>>
       ELSE /\ ctx' = [ctx EXCEPT ![c] = aws_md5_new]
            /\ handle' = [handle EXCEPT ![c] = "reachable"]
            /\ ret' = Ret(op, c, "none", "none", "external")
            /\ secretBuf' = NoSecretBuf
            /\ UNCHANGED digests

hash_sha256_new(env) ==
    LET op == "hash_sha256_new"
        c == NumAllocated + 1
    IN
    /\ HashNewAllocates(env) => NumAllocated < Slots
    /\ IF env = "alloc"
       THEN /\ ret' = Ret(op, 0, "none", "none", "null")
            /\ secretBuf' = NoSecretBuf
            /\ UNCHANGED <<ctx, handle, digests>>
       ELSE IF env = "external"
       THEN /\ ctx' = [ctx EXCEPT ![c] = aws_sha256_new]
            /\ ret' = Ret(op, c, "none", "ExternalError", "null")
            /\ secretBuf' = NoSecretBuf
            /\ UNCHANGED <<handle, digests>>
       ELSE /\ ctx' = [ctx EXCEPT ![c] = aws_sha256_new]
            /\ handle' = [handle EXCEPT ![c] = "reachable"]
            /\ ret' = Ret(op, c, "none", "none", "external")
            /\ secretBuf' = NoSecretBuf
            /\ UNCHANGED digests

\* hash_update with the result of aws_hash_update ignored
hash_update_throw_ignored(err) == "none"

\* lines 97-99: what hash_update throws for the library's result
hash_update_throw(err) == err

\* hash_update feeding one hash object shared by every handle instead of
\* the object of line 85
hash_update_static_hash(env, nargs, h, data, ub) ==
    LET op == "hash_update"
        pre == StateOf(h)
        Fail(exc) == /\ ret' = Ret(op, h, pre, exc, "null")
                     /\ secretBuf' = NoSecretBuf
                     /\ UNCHANGED <<ctx, handle, digests>>
        Early(exc) == /\ ret' = Ret(op, 0, "none", exc, "null")
                      /\ secretBuf' = NoSecretBuf
                      /\ UNCHANGED <<ctx, handle, digests>>
    IN
    IF env = "cb_info" THEN Early("CallbackInfoError")
    ELSE IF nargs # 2 THEN Early("ArgCountError")
    ELSE IF h = 0 THEN Fail("InvalidHandleError")
    ELSE IF ~data.ok THEN Fail("TypeError")
    ELSE IF ub = "fault" THEN Fail("Fault")
    ELSE LET r == aws_hash_update(ctx[1], data.bytes) IN
         /\ ctx[1].state = "ACTIVE"
              => Len(ctx[1].acc) + Len(data.bytes) <= MaxAcc
         /\ ctx' = [ctx EXCEPT ![1] = r.c]
         /\ ret' = Ret(op, h, pre, hash_update_throw(r.err), "null")
         /\ secretBuf' = NoSecretBuf
         /\ UNCHANGED <<handle, digests>>

\* hash_update with a cursor one byte shorter than the buffer of line 96
hash_update_short_cursor(env, nargs, h, data, ub) ==
    LET op == "hash_update"
        pre == StateOf(h)
        Fail(exc) == /\ ret' = Ret(op, h, pre, exc, "null")
                     /\ secretBuf' = NoSecretBuf
                     /\ UNCHANGED <<ctx, handle, digests>>
        Early(exc) == /\ ret' = Ret(op, 0, "none", exc, "null")
                      /\ secretBuf' = NoSecretBuf
                      /\ UNCHANGED <<ctx, handle, digests>>
    IN
    IF env = "cb_info" THEN Early("CallbackInfoError")
    ELSE IF nargs # 2 THEN Early("ArgCountError")
    ELSE IF h = 0 THEN Fail("InvalidHandleError")
    ELSE IF ~data.ok THEN Fail("TypeError")
    ELSE IF ub = "fault" THEN Fail("Fault")
    ELSE LET r == aws_hash_update(ctx[h],
                                  SubSeq(data.bytes, 1, Len(data.bytes) - 1)) IN
         /\ pre = "ACTIVE" => Len(ctx[h].acc) + Len(data.bytes) <= MaxAcc
         /\ ctx' = [ctx EXCEPT ![h] = r.c]
         /\ ret' = Ret(op, h, pre, hash_update_throw(r.err), "null")
         /\ secretBuf' = NoSecretBuf
         /\ UNCHANGED <<handle, digests>>

\* env = "cb_info": napi_get_cb_info fails; nargs: arguments passed;
\* h: first argument; data: second argument; ub: see UBOutcomes
hash_update(env, nargs, h, data, ub) ==
    LET op == "hash_update"
        pre == StateOf(h)
        Fail(exc) == /\ ret' = Ret(op, h, pre, exc, "null")
                     /\ secretBuf' = NoSecretBuf
                     /\ UNCHANGED <<ctx, handle, digests>>
        Early(exc) == /\ ret' = Ret(op, 0, "none", exc, "null")
                      /\ secretBuf' = NoSecretBuf
                      /\ UNCHANGED <<ctx, handle, digests>>
    IN
    IF env = "cb_info" THEN Early("CallbackInfoError")
    ELSE IF nargs # 2 THEN Early("ArgCountError")
    ELSE IF h = 0 THEN Fail("InvalidHandleError")
    ELSE IF ~data.ok THEN Fail("TypeError")
    ELSE IF ub = "fault" THEN Fail("Fault")
    ELSE LET r == aws_hash_update(ctx[h], data.bytes) IN
         /\ pre = "ACTIVE" => Len(ctx[h].acc) + Len(data.bytes) <= MaxAcc
         /\ ctx' = [ctx EXCEPT ![h] = r.c]
         /\ ret' = Ret(op, h, pre, hash_update_throw(r.err), "null")
         /\ secretBuf' = NoSecretBuf
         /\ UNCHANGED <<handle, digests>>

\* hash_digest with the comparison of line 134 turned around
hash_digest_size_flipped(n, arg) ==
    IF ~aws_napi_is_null_or_undefined(arg)
    THEN LET truncate_to == napi_get_value_uint32(arg) IN
         IF ~truncate_to.ok THEN [fail |-> TRUE, size |-> n]
         ELSE IF n < truncate_to.v THEN [fail |-> FALSE, size |-> truncate_to.v]
         ELSE [fail |-> FALSE, size |-> n]
    ELSE [fail |-> FALSE, size |-> n]

\* lines 125-137: the local digest_size of hash_digest; fail = the
\* type error of line 130
hash_digest_size(n, arg) ==
    IF ~aws_napi_is_null_or_undefined(arg)
    THEN LET truncate_to == napi_get_value_uint32(arg) IN
         IF ~truncate_to.ok THEN [fail |-> TRUE, size |-> n]
         ELSE IF n > truncate_to.v THEN [fail |-> FALSE, size |-> truncate_to.v]
         ELSE [fail |-> FALSE, size |-> n]
    ELSE [fail |-> FALSE, size |-> n]

\* hash_digest without the return of line 149: it throws the library's
\* error and goes on to wrap the buffer
hash_digest_no_return(env, nargs, h, arg, ub) ==
    LET op == "hash_digest"
        pre == StateOf(h)
        Fail(exc) == /\ ret' = Ret(op, h, pre, exc, "null")
                     /\ secretBuf' = NoSecretBuf
                     /\ UNCHANGED <<ctx, handle, digests>>
        Early(exc) == /\ ret' = Ret(op, 0, "none", exc, "null")
                      /\ secretBuf' = NoSecretBuf
                      /\ UNCHANGED <<ctx, handle, digests>>
    IN
    IF env = "cb_info" THEN Early("CallbackInfoError")
    ELSE IF nargs # 2 THEN Early("ArgCountError")
    ELSE IF h = 0 THEN Fail("InvalidHandleError")
    ELSE IF ub = "fault" THEN Fail("Fault")
    ELSE LET ds == hash_digest_size(ctx[h].digest_size, arg) IN
         IF ds.fail THEN Fail("TypeError")
         ELSE IF env = "arraybuffer" THEN Fail("ArrayBufferError")
         ELSE LET r == aws_hash_finalize(ctx[h], ds.size) IN
              IF r.err # "none"
              THEN /\ ctx' = [ctx EXCEPT ![h] = r.c]
                   /\ digests' = [digests EXCEPT
                                    ![h] = [emitted |-> TRUE, by |-> op,
                                            bytes |-> r.out]]
                   /\ ret' = Ret(op, h, pre, r.err, "dataview")
                   /\ secretBuf' = NoSecretBuf
                   /\ UNCHANGED handle
              ELSE IF env = "dataview"
              THEN /\ ctx' = [ctx EXCEPT ![h] = r.c]
                   /\ ret' = Ret(op, h, pre, "DataViewError", "null")
                   /\ secretBuf' = NoSecretBuf
                   /\ UNCHANGED <<handle, digests>>
              ELSE /\ ctx' = [ctx EXCEPT ![h] = r.c]
                   /\ digests' = [digests EXCEPT
                                    ![h] = [emitted |-> TRUE, by |-> op,
                                            bytes |-> r.out]]
                   /\ ret' = Ret(op, h, pre, "none", "dataview")
                   /\ secretBuf' = NoSecretBuf
                   /\ UNCHANGED handle

\* hash_digest with line 135 assigning hash->digest_size instead of the
\* local digest_size
hash_digest_stores_size(env, nargs, h, arg, ub) ==
    LET op == "hash_digest"
        pre == StateOf(h)
        Fail(exc) == /\ ret' = Ret(op, h, pre, exc, "null")
                     /\ secretBuf' = NoSecretBuf
                     /\ UNCHANGED <<ctx, handle, digests>>
        Early(exc) == /\ ret' = Ret(op, 0, "none", exc, "null")
                      /\ secretBuf' = NoSecretBuf
                      /\ UNCHANGED <<ctx, handle, digests>>
    IN
    IF env = "cb_info" THEN Early("CallbackInfoError")
    ELSE IF nargs # 2 THEN Early("ArgCountError")
    ELSE IF h = 0 THEN Fail("InvalidHandleError")
    ELSE IF ub = "fault" THEN Fail("Fault")
    ELSE LET ds == hash_digest_size(ctx[h].digest_size, arg) IN
         IF ds.fail THEN Fail("TypeError")
         ELSE IF env = "arraybuffer" THEN Fail("ArrayBufferError")
         ELSE LET r == aws_hash_finalize(ctx[h], ds.size) IN
              IF r.err # "none"
              THEN /\ ctx' = [ctx EXCEPT ![h] = [r.c EXCEPT !.digest_size = ds.size]]
                   /\ ret' = Ret(op, h, pre, r.err, "null")
                   /\ secretBuf' = NoSecretBuf
                   /\ UNCHANGED <<handle, digests>>
              ELSE IF env = "dataview"
              THEN /\ ctx' = [ctx EXCEPT ![h] = [r.c EXCEPT !.digest_size = ds.size]]
                   /\ ret' = Ret(op, h, pre, "DataViewError", "null")
                   /\ secretBuf' = NoSecretBuf
                   /\ UNCHANGED <<handle, digests>>
              ELSE /\ ctx' = [ctx EXCEPT ![h] = [r.c EXCEPT !.digest_size = ds.size]]
                   /\ digests' = [digests EXCEPT
                                    ![h] = [emitted |-> TRUE, by |-> op,
                                            bytes |-> r.out]]
                   /\ ret' = Ret(op, h, pre, "none", "dataview")
                   /\ secretBuf' = NoSecretBuf
                   /\ UNCHANGED handle

\* arg: second argument (truncate_to); env = "arraybuffer":
\* napi_create_arraybuffer fails; env = "dataview": napi_create_dataview fails
hash_digest(env, nargs, h, arg, ub) ==
    LET op == "hash_digest"
        pre == StateOf(h)
        Fail(exc) == /\ ret' = Ret(op, h, pre, exc, "null")
                     /\ secretBuf' = NoSecretBuf
                     /\ UNCHANGED <<ctx, handle, digests>>
        Early(exc) == /\ ret' = Ret(op, 0, "none", exc, "null")
                      /\ secretBuf' = NoSecretBuf
                      /\ UNCHANGED <<ctx, handle, digests>>
    IN
    IF env = "cb_info" THEN Early("CallbackInfoError")
    ELSE IF nargs # 2 THEN Early("ArgCountError")
    ELSE IF h = 0 THEN Fail("InvalidHandleError")
    ELSE IF ub = "fault" THEN Fail("Fault")
    ELSE LET ds == hash_digest_size(ctx[h].digest_size, arg) IN
         IF ds.fail THEN Fail("TypeError")
         ELSE IF env = "arraybuffer" THEN Fail("ArrayBufferError")
         ELSE LET r == aws_hash_finalize(ctx[h], ds.size) IN
              IF r.err # "none"
              THEN /\ ctx' = [ctx EXCEPT ![h] = r.c]
                   /\ ret' = Ret(op, h, pre, r.err, "null")
                   /\ secretBuf' = NoSecretBuf
                   /\ UNCHANGED <<handle, digests>>
              ELSE IF env = "dataview"
              THEN /\ ctx' = [ctx EXCEPT ![h] = r.c]
                   /\ ret' = Ret(op, h, pre, "DataViewError", "null")
                   /\ secretBuf' = NoSecretBuf
                   /\ UNCHANGED <<handle, digests>>
              ELSE /\ ctx' = [ctx EXCEPT ![h] = r.c]
                   /\ digests' = [digests EXCEPT
                                    ![h] = [emitted |-> TRUE, by |-> op,
                                            bytes |-> r.out]]
                   /\ ret' = Ret(op, h, pre, "none", "dataview")
                   /\ secretBuf' = NoSecretBuf
                   /\ UNCHANGED handle

\* ===================================================================
\* HMAC
\* ===================================================================

\* Finalizer for an hmac external
s_hmac_finalize(c) ==
    /\ handle[c] = "reachable"
    /\ KindOf(ctx[c].alg) = "hmac"
    /\ ctx' = [ctx EXCEPT ![c] = aws_hmac_destroy(@)]
    /\ handle' = [handle EXCEPT ![c] = "collected"]
    /\ UNCHANGED <<digests, secretBuf, ret>>

\* hmac_sha256_new with the destroy call of line 210 outside the if
hmac_sha256_new_destroy_always(env, nargs, secret) ==
    LET op == "hmac_sha256_new"
        c == NumAllocated + 1
        buf == aws_byte_buf_init_from_napi(secret.bytes)
        Fail(exc) == /\ ret' = Ret(op, 0, "none", exc, "null")
                     /\ secretBuf' = NoSecretBuf
                     /\ UNCHANGED <<ctx, handle, digests>>
    IN
    /\ HmacNewAllocates(env, nargs, secret) => NumAllocated < Slots
    /\ IF env = "cb_info" THEN Fail("CallbackInfoError")
       ELSE IF nargs # 1 THEN Fail("ArgCountError")
       ELSE IF ~secret.ok THEN Fail("TypeError")
       ELSE IF env = "alloc"
       THEN /\ secretBuf' = aws_byte_buf_clean_up(buf)
            /\ ret' = Ret(op, 0, "none", "none", "null")
            /\ UNCHANGED <<ctx, handle, digests>>
       ELSE IF env = "external"
       THEN /\ ctx' = [ctx EXCEPT
                         ![c] = aws_hmac_destroy(aws_sha256_hmac_new(secret.bytes))]
            /\ secretBuf' = aws_byte_buf_clean_up_secure(buf)
            /\ ret' = Ret(op, c, "none", "ExternalError", "null")
            /\ UNCHANGED <<handle, digests>>
       ELSE /\ ctx' = [ctx EXCEPT
                         ![c] = aws_hmac_destroy(aws_sha256_hmac_new(secret.bytes))]
            /\ handle' = [handle EXCEPT ![c] = "reachable"]
            /\ secretBuf' = buf
            /\ ret' = Ret(op, c, "none", "none", "external")
            /\ UNCHANGED digests

\* secret: the one argument; env = "alloc": aws_sha256_hmac_new returns
\* NULL; env = "external": napi_create_external fails
hmac_sha256_new(env, nargs, secret) ==
    LET op == "hmac_sha256_new"
        c == NumAllocated + 1
        buf == aws_byte_buf_init_from_napi(secret.bytes)
        Fail(exc) == /\ ret' = Ret(op, 0, "none", exc, "null")
                     /\ secretBuf' = NoSecretBuf
                     /\ UNCHANGED <<ctx, handle, digests>>
    IN
    /\ HmacNewAllocates(env, nargs, secret) => NumAllocated < Slots
    /\ IF env = "cb_info" THEN Fail("CallbackInfoError")
       ELSE IF nargs # 1 THEN Fail("ArgCountError")
       ELSE IF ~secret.ok THEN Fail("TypeError")
       ELSE IF env = "alloc"
       THEN /\ secretBuf' = aws_byte_buf_clean_up(buf)
            /\ ret' = Ret(op, 0, "none", "none", "null")
            /\ UNCHANGED <<ctx, handle, digests>>
       ELSE IF env = "external"
       THEN /\ ctx' = [ctx EXCEPT
                         ![c] = aws_hmac_destroy(aws_sha256_hmac_new(secret.bytes))]
            /\ secretBuf' = aws_byte_buf_clean_up_secure(buf)
            /\ ret' = Ret(op, c, "none", "ExternalError", "null")
            /\ UNCHANGED <<handle, digests>>
       ELSE /\ ctx' = [ctx EXCEPT ![c] = aws_sha256_hmac_new(secret.bytes)]
            /\ handle' = [handle EXCEPT ![c] = "reachable"]
            /\ secretBuf' = buf
            /\ ret' = Ret(op, c, "none", "none", "external")
            /\ UNCHANGED digests

\* lines 242-244: what hmac_update throws for the library's result
hmac_update_throw(err) == err

hmac_update(env, nargs, h, data, ub) ==
    LET op == "hmac_update"
        pre == StateOf(h)
        Fail(exc) == /\ ret' = Ret(op, h, pre, exc, "null")
                     /\ secretBuf' = NoSecretBuf
                     /\ UNCHANGED <<ctx, handle, digests>>
        Early(exc) == /\ ret' = Ret(op, 0, "none", exc, "null")
                      /\ secretBuf' = NoSecretBuf
                      /\ UNCHANGED <<ctx, handle, digests>>
    IN
    IF env = "cb_info" THEN Early("CallbackInfoError")
    ELSE IF nargs # 2 THEN Early("ArgCountError")
    ELSE IF h = 0 THEN Fail("InvalidHandleError")
    ELSE IF ~data.ok THEN Fail("TypeError")
    ELSE IF ub = "fault" THEN Fail("Fault")
    ELSE LET r == aws_hmac_update(ctx[h], data.bytes) IN
         /\ pre = "ACTIVE" => Len(ctx[h].acc) + Len(data.bytes) <= MaxAcc
         /\ ctx' = [ctx EXCEPT ![h] = r.c]
         /\ ret' = Ret(op, h, pre, hmac_update_throw(r.err), "null")
         /\ secretBuf' = NoSecretBuf
         /\ UNCHANGED <<handle, digests>>

\* lines 270-282: the local digest_size of hmac_digest; the block runs
\* when the argument IS null or undefined
hmac_digest_size(n, arg) ==
    IF aws_napi_is_null_or_undefined(arg)
    THEN LET truncate_to == napi_get_value_uint32(arg) IN
         IF ~truncate_to.ok THEN [fail |-> TRUE, size |-> n]
         ELSE IF n > truncate_to.v THEN [fail |-> FALSE, size |-> truncate_to.v]
         ELSE [fail |-> FALSE, size |-> n]
    ELSE [fail |-> FALSE, size |-> n]

hmac_digest(env, nargs, h, arg, ub) ==
    LET op == "hmac_digest"
        pre == StateOf(h)
        Fail(exc) == /\ ret' = Ret(op, h, pre, exc, "null")
                     /\ secretBuf' = NoSecretBuf
                     /\ UNCHANGED <<ctx, handle, digests>>
        Early(exc) == /\ ret' = Ret(op, 0, "none", exc, "null")
                      /\ secretBuf' = NoSecretBuf
                      /\ UNCHANGED <<ctx, handle, digests>>
    IN
    IF env = "cb_info" THEN Early("CallbackInfoError")
    ELSE IF nargs # 2 THEN Early("ArgCountError")
    ELSE IF h = 0 THEN Fail("InvalidHandleError")
    ELSE IF ub = "fault" THEN Fail("Fault")
    ELSE LET ds == hmac_digest_size(ctx[h].digest_size, arg) IN
         IF ds.fail THEN Fail("TypeError")
         ELSE IF env = "arraybuffer" THEN Fail("ArrayBufferError")
         ELSE LET r == aws_hmac_finalize(ctx[h], ds.size) IN
              IF r.err # "none"
              THEN /\ ctx' = [ctx EXCEPT ![h] = r.c]
                   /\ ret' = Ret(op, h, pre, r.err, "null")
                   /\ secretBuf' = NoSecretBuf
                   /\ UNCHANGED <<handle, digests>>
              ELSE IF env = "dataview"
              THEN /\ ctx' = [ctx EXCEPT ![h] = r.c]
                   /\ ret' = Ret(op, h, pre, "DataViewError", "null")
                   /\ secretBuf' = NoSecretBuf
                   /\ UNCHANGED <<handle, digests>>
              ELSE /\ ctx' = [ctx EXCEPT ![h] = r.c]
                   /\ digests' = [digests EXCEPT
                                    ![h] = [emitted |-> TRUE, by |-> op,
                                            bytes |-> r.out]]
                   /\ ret' = Ret(op, h, pre, "none", "dataview")
                   /\ secretBuf' = NoSecretBuf
                   /\ UNCHANGED handle

Init ==
    /\ ctx = [c \in CtxIds |-> FreeCtx]
    /\ handle = [c \in CtxIds |-> "none"]
    /\ digests = [c \in CtxIds |-> NoDigest]
    /\ secretBuf = NoSecretBuf
    /\ ret = NoRet

\* The inputs of Next.  A call that fails before it looks at an argument
\* behaves the same for every value of that argument, so such calls are
\* drawn with one representative value: the argument count and the failure
\* of napi_get_cb_info vary only with a non-external first argument (h = 0),
\* and a call with one argument leaves the second one undefined.
NArgs(h) == IF h = 0 THEN {1, 2} ELSE {2}

UpdateEnvFor(h, nargs) ==
    IF h = 0 /\ nargs = 2 THEN UpdateEnv ELSE {"ok"}

DigestEnvFor(h, nargs) ==
    IF h = 0 THEN (IF nargs = 2 THEN {"ok", "cb_info"} ELSE {"ok"})
    ELSE DigestEnv \ {"cb_info"}

DataArgsFor(h) == IF h = 0 THEN {BadBytesArg} ELSE DataArgs

TruncArgsFor(h) == IF h = 0 THEN {Absent} ELSE TruncArgs

HmacNewEnvFor(nargs, secret) ==
    IF nargs = 1 /\ secret.ok THEN HmacNewEnv
    ELSE IF nargs = 1 THEN {"ok"} ELSE {"ok", "cb_info"}

SecretArgsFor(nargs) == IF nargs = 1 THEN SecretArgs ELSE {BadBytesArg}

\* the allocation bound of a run
Room(max, allocates) == allocates => NumAllocated < max

Next ==
    \/ \E env \in NewEnv :
         Room(MaxCtx, HashNewAllocates(env)) /\ hash_md5_new(env)
    \/ \E env \in NewEnv :
         Room(MaxCtx, HashNewAllocates(env)) /\ hash_sha256_new(env)
    \/ \E h \in Handles : \E nargs \in NArgs(h) :
         \E env \in UpdateEnvFor(h, nargs), data \in DataArgsFor(h),
            ub \in UBOutcomes(h, "hash") :
              hash_update(env, nargs, h, data, ub)
    \/ \E h \in Handles : \E nargs \in NArgs(h) :
         \E env \in DigestEnvFor(h, nargs), arg \in TruncArgsFor(h),
            ub \in UBOutcomes(h, "hash") :
              hash_digest(env, nargs, h, arg, ub)
    \/ \E nargs \in {0, 1} : \E secret \in SecretArgsFor(nargs) :
         \E env \in HmacNewEnvFor(nargs, secret) :
           /\ Room(MaxCtx, HmacNewAllocates(env, nargs, secret))
           /\ hmac_sha256_new(env, nargs, secret)
    \/ \E h \in Handles : \E nargs \in NArgs(h) :
         \E env \in UpdateEnvFor(h, nargs), data \in DataArgsFor(h),
            ub \in UBOutcomes(h, "hmac") :
              hmac_update(env, nargs, h, data, ub)
    \/ \E h \in Handles : \E nargs \in NArgs(h) :
         \E env \in DigestEnvFor(h, nargs), arg \in TruncArgsFor(h),
            ub \in UBOutcomes(h, "hmac") :
              hmac_digest(env, nargs, h, arg, ub)
    \/ \E c \in CtxIds : s_hash_finalize(c)
    \/ \E c \in CtxIds : s_hmac_finalize(c)

Spec == Init /\ [][Next]_vars

\* Every external is eventually dropped by the caller and the collector
\* eventually runs its finalizer.
FairSpec ==
    /\ Spec
    /\ \A c \in CtxIds : WF_vars(s_hash_finalize(c))
    /\ \A c \in CtxIds : WF_vars(s_hmac_finalize(c))

\* Runs with up to MaxPair contexts alive together.  The calls are the
\* well-typed ones: a handle goes to the functions of its own kind, the
\* argument count is right, the data is one byte, truncate_to is absent
\* or shorter than the digest; the host may fail to create the external.
PairHandles(kind) ==
    {c \in CtxIds : handle[c] = "reachable" /\ KindOf(ctx[c].alg) = kind}

PairData == {BytesArg(<<1>>)}

PairTrunc == {Absent, Num(5)}

PairNewEnv == {"ok", "external"}

NextPair ==
    \/ \E env \in PairNewEnv :
         Room(MaxPair, HashNewAllocates(env)) /\ hash_md5_new(env)
    \/ \E env \in PairNewEnv :
         Room(MaxPair, HashNewAllocates(env)) /\ hash_sha256_new(env)
    \/ \E h \in PairHandles("hash"), data \in PairData :
         hash_update("ok", 2, h, data, "proceed")
    \/ \E h \in PairHandles("hash"), arg \in PairTrunc :
         hash_digest("ok", 2, h, arg, "proceed")
    \/ \E env \in PairNewEnv, secret \in SecretArgs \ {BadBytesArg} :
         /\ Room(MaxPair, HmacNewAllocates(env, 1, secret))
         /\ hmac_sha256_new(env, 1, secret)
    \/ \E h \in PairHandles("hmac"), data \in PairData :
         hmac_update("ok", 2, h, data, "proceed")
    \/ \E h \in PairHandles("hmac"), arg \in PairTrunc :
         hmac_digest("ok", 2, h, arg, "proceed")
    \/ \E c \in CtxIds : s_hash_finalize(c)
    \/ \E c \in CtxIds : s_hmac_finalize(c)

PairSpec == Init /\ [][NextPair]_vars

\* ===================================================================
\* Properties
\* ===================================================================

IsHash(h) == h # 0 /\ KindOf(ctx[h].alg) = "hash"
IsHmac(h) == h # 0 /\ KindOf(ctx[h].alg) = "hmac"

\* a well-formed truncate_to argument: absent, or an unsigned number
WellFormedTrunc == {a \in TruncArgs : a.tag \in {"absent", "number"}}

\* the digest the specification asks for: the leading min(n, r) bytes of
\* the natural digest when r is given, else all n bytes
Expected(c, arg) ==
    SubSeq(NaturalDigest(c), 1,
           IF arg.tag = "number" THEN Min(DigestSize(c.alg), arg.v)
           ELSE DigestSize(c.alg))

\* the step is a well-formed finalize call on context h, all host calls
\* succeeding
HashDigestCall(h, arg) == IsHash(h) /\ hash_digest("ok", 2, h, arg, "proceed")
HmacDigestCall(h, arg) == IsHmac(h) /\ hmac_digest("ok", 2, h, arg, "proceed")
DigestCall(h, arg) == HashDigestCall(h, arg) \/ HmacDigestCall(h, arg)

\* the step is a well-formed update call on context h
HashUpdateCall(h, d) ==
    IsHash(h) /\ hash_update("ok", 2, h, BytesArg(d), "proceed")
HmacUpdateCall(h, d) ==
    IsHmac(h) /\ hmac_update("ok", 2, h, BytesArg(d), "proceed")
UpdateCall(h, d) == HashUpdateCall(h, d) \/ HmacUpdateCall(h, d)

\* C1: in both engines a well-formed finalize call on a context whose
\* digest the same engine has already emitted fails with InvalidStateError, returns no
\* digest and leaves the emitted digest as it was.
C1_SecondFinalizeFails ==
    [][\A h \in CtxIds :
         (ret'.op \in {"hash_digest", "hmac_digest"} /\ ret'.h = h
            /\ ctx[h].state = "FINALIZED" /\ digests[h].emitted
            /\ digests[h].by = ret'.op)
         => \A arg \in WellFormedTrunc :
              DigestCall(h, arg)
              => /\ ret'.exc = "InvalidStateError"
                 /\ ret'.val = "null"
                 /\ digests' = digests]_vars

\* C2: in both engines a well-formed update call on a FINALIZED context
\* fails with InvalidStateError, leaves every context as it was, and
\* leaves the digest already produced as it was.
C2_UpdateAfterFinalizeFails ==
    [][\A h \in CtxIds :
         (ret'.op \in {"hash_update", "hmac_update"} /\ ret'.h = h
            /\ ctx[h].state = "FINALIZED")
         => \A d \in Data :
              UpdateCall(h, d)
              => /\ ret'.exc = "InvalidStateError"
                 /\ ctx' = ctx
                 /\ digests' = digests]_vars

\* C2 witness: an update was refused on a context whose digest had been
\* emitted.
C2_Witness ==
    /\ ret.op \in {"hash_update", "hmac_update"}
    /\ ret.pre = "FINALIZED"
    /\ ret.exc = "InvalidStateError"
    /\ digests[ret.h].emitted
    /\ ctx[ret.h].state = "FINALIZED"

\* C3: a well-formed hash_digest call on an ACTIVE hash context succeeds
\* and emits exactly the leading min(n, r) bytes of the natural digest when
\* truncate_to = r is given, and all n bytes when it is absent.
C3_HashTruncation ==
    [][\A h \in CtxIds :
         (ret'.op = "hash_digest" /\ ret'.h = h /\ ctx[h].state = "ACTIVE")
         => \A arg \in WellFormedTrunc :
              HashDigestCall(h, arg)
              => /\ ret'.exc = "none"
                 /\ ret'.val = "dataview"
                 /\ digests'[h].emitted
                 /\ digests'[h].bytes = Expected(ctx[h], arg)]_vars

\* C3 witness: hash_digest returned a digest shorter than the natural one,
\* but not empty.
C3_Witness ==
    /\ ret.op = "hash_digest"
    /\ IsHash(ret.h)
    /\ ret.pre = "ACTIVE"
    /\ ret.val = "dataview"
    /\ Len(digests[ret.h].bytes) \in 1..(ctx[ret.h].digest_size - 1)

\* C4: a well-formed hmac_digest call on an ACTIVE hmac context succeeds
\* and emits the leading min(n, r) bytes when truncate_to = r is given, and
\* all n bytes when it is absent, as hash_digest does.
C4_HmacTruncation ==
    [][\A h \in CtxIds :
         (ret'.op = "hmac_digest" /\ ret'.h = h /\ ctx[h].state = "ACTIVE")
         => \A arg \in WellFormedTrunc :
              HmacDigestCall(h, arg)
              => /\ ret'.exc = "none"
                 /\ ret'.val = "dataview"
                 /\ digests'[h].emitted
                 /\ digests'[h].bytes = Expected(ctx[h], arg)]_vars

\* C5: when hmac_sha256_new returns after it acquired the transient secret
\* buffer, every byte of that buffer has been overwritten.
C5_SecretErased ==
    (ret.op = "hmac_sha256_new" /\ secretBuf.state # "none")
    => /\ secretBuf.state = "released"
       /\ secretBuf.bytes = Zeroes(Len(secretBuf.secret))

\* C6: a create call that fails after allocating a context has destroyed
\* that context when it returns.
C6_FailedCreateDestroys ==
    (ret.op \in {"hash_md5_new", "hash_sha256_new", "hmac_sha256_new"}
       /\ ret.h # 0 /\ ret.val = "null")
    => ctx[ret.h].state = "DESTROYED"

\* C7: no context is ever destroyed more than once.
C7_DestroyedAtMostOnce == \A c \in CtxIds : ctx[c].destroys <= 1

\* C7 witness: hmac_sha256_new has destroyed its context on the
\* handle-registration failure path, and no finalizer is left to run on it.
C7_Witness ==
    /\ ret.op = "hmac_sha256_new"
    /\ ret.exc = "ExternalError"
    /\ ctx[ret.h].destroys = 1
    /\ handle[ret.h] = "none"

\* C8: every allocated context is destroyed exactly once: never twice, and
\* under a collector that runs every finalizer, eventually once.
C8_DestroyedExactlyOnce ==
    /\ [](\A c \in CtxIds : ctx[c].destroys <= 1)
    /\ \A c \in CtxIds :
         (ctx[c].state \in {"ACTIVE", "FINALIZED"})
           ~> (ctx[c].state = "DESTROYED" /\ ctx[c].destroys = 1)

\* C9: in both engines a finalize call with truncate_to = 0 on an ACTIVE
\* context succeeds, emits the empty digest and leaves the context
\* FINALIZED.
C9_TruncateToZero ==
    [][\A h \in CtxIds :
         (ret'.op \in {"hash_digest", "hmac_digest"} /\ ret'.h = h
            /\ ctx[h].state = "ACTIVE" /\ DigestCall(h, Num(0)))
         => /\ ret'.exc = "none"
            /\ ret'.val = "dataview"
            /\ digests'[h].emitted
            /\ digests'[h].bytes = <<>>
            /\ ctx'[h].state = "FINALIZED"]_vars

\* C10: an hmac call given a hash context's handle, or a hash call given an
\* hmac context's handle, fails with InvalidHandleError.
C10_TypeConfusionRejected ==
    (\/ ret.op \in {"hmac_update", "hmac_digest"} /\ IsHash(ret.h)
     \/ ret.op \in {"hash_update", "hash_digest"} /\ IsHmac(ret.h))
    => ret.exc = "InvalidHandleError"

\* No handle the caller holds wraps a destroyed context: a context is
\* destroyed by its finalizer, which runs once the external is out of the
\* caller's reach, or by hmac_sha256_new before any external exists.  The
\* binding functions therefore never meet a destroyed context.
NoStaleHandle ==
    \A c \in CtxIds :
      handle[c] = "reachable" => ctx[c].state \in {"ACTIVE", "FINALIZED"}

\* C12: a create call whose allocator (aws_md5_new, aws_sha256_new,
\* aws_sha256_hmac_new) returns NULL raises an error before it returns.
C12_AllocFailureRaises ==
    [][/\ (ret'.op = "hash_md5_new" /\ hash_md5_new("alloc"))
            => ret'.exc # "none"
       /\ (ret'.op = "hash_sha256_new" /\ hash_sha256_new("alloc"))
            => ret'.exc # "none"
       /\ \A secret \in SecretArgs \ {BadBytesArg} :
            (ret'.op = "hmac_sha256_new"
               /\ hmac_sha256_new("alloc", 1, secret))
            => ret'.exc # "none"]_vars

\* the context a fresh context of the same algorithm and key becomes by
\* one update with the bytes x
OneUpdate(c, x) ==
    IF KindOf(c.alg) = "hash"
    THEN aws_hash_update(NewCtx(c.alg, c.key), x).c
    ELSE aws_hmac_update(NewCtx(c.alg, c.key), x).c

C14_NoPartialDigest ==
    [][ret'.op \in {"hash_digest", "hmac_digest"}
         => /\ ret'.exc # "none" => (ret'.val = "null" /\ digests' = digests)
            /\ ret'.val = "null" => ret'.exc # "none"
            /\ ret'.val \in {"null", "dataview"}]_vars

\* C14 witness: a finalize call failed at its last step, the creation of
\* the data view, after the library had finalized the context; no digest
\* was emitted.
C14_Witness ==
    /\ ret.op \in {"hash_digest", "hmac_digest"}
    /\ ret.exc = "DataViewError"
    /\ ret.val = "null"
    /\ ret.h # 0
    /\ ret.pre = "ACTIVE"
    /\ ctx[ret.h].state = "FINALIZED"
    /\ ~digests[ret.h].emitted

Lifecycle ==
    {<<"FREE", "ACTIVE">>, <<"FREE", "DESTROYED">>,
     <<"ACTIVE", "FINALIZED">>, <<"ACTIVE", "DESTROYED">>,
     <<"FINALIZED", "DESTROYED">>}

\* C16: the state of a context only moves forward: ACTIVE to FINALIZED or
\* DESTROYED, FINALIZED to DESTROYED, and never out of DESTROYED; no call,
\* failed or not, takes a context back.
C16_LifecycleMonotonic ==
    [][\A c \in CtxIds :
         ctx'[c].state # ctx[c].state
         => <<ctx[c].state, ctx'[c].state>> \in Lifecycle]_vars

\* C16 witness: a context that was finalized (its digest was emitted) has
\* been destroyed by its finalizer while another context is still ACTIVE.
C16_Witness ==
    \E c, d \in CtxIds :
      /\ ctx[c].state = "DESTROYED"
      /\ digests[c].emitted
      /\ handle[c] = "collected"
      /\ ctx[d].state = "ACTIVE"

\* C17: the digest_size of a context never changes once the context is
\* constructed, whatever truncate_to the finalize calls pass and whether
\* they succeed or fail.
C17_DigestSizeFixed ==
    [][\A c \in CtxIds :
         ctx[c].state # "FREE"
         => /\ ctx'[c].digest_size = ctx[c].digest_size
            /\ ctx'[c].digest_size = DigestSize(ctx'[c].alg)]_vars

\* C17 witness: hash_digest has emitted a digest truncated to 5 bytes and
\* the context still has the digest_size of its algorithm.
C17_Witness ==
    /\ ret.op = "hash_digest"
    /\ ret.exc = "none"
    /\ ret.h # 0
    /\ IsHash(ret.h)
    /\ Len(digests[ret.h].bytes) = 5
    /\ ctx[ret.h].state = "FINALIZED"
    /\ ctx[ret.h].digest_size = DigestSize(ctx[ret.h].alg)

\* the contexts a step changes: state, accumulator, digest_size, emitted
\* digest or handle
Changed ==
    {c \in CtxIds : \/ ctx'[c] # ctx[c]
                    \/ digests'[c] # digests[c]
                    \/ handle'[c] # handle[c]}

\* C18: contexts are independent: a step changes at most one context, the
\* one the call was made on or the one the finalizer was run for, and
\* leaves every other context as it was; the digest a context emits is the
\* digest of its own algorithm, key and accumulated input.
C18_ContextsIndependent ==
    [][/\ Cardinality(Changed) <= 1
       /\ \A c \in Changed :
            \/ ret'.h = c
            \/ handle[c] = "reachable" /\ handle'[c] = "collected"
       /\ \A c \in CtxIds :
            (~digests[c].emitted /\ digests'[c].emitted)
            => /\ ret'.h = c
               /\ digests'[c].bytes =
                    SubSeq(NaturalDigest(OneUpdate(ctx[c], ctx[c].acc)),
                           1, Len(digests'[c].bytes))]_vars

\* C18 witness: two contexts of the same algorithm, alive together and fed
\* different input, have both emitted their full digest, and the digests
\* differ.
C18_Witness ==
    /\ ctx[1].alg = "md5"
    /\ ctx[2].alg = "md5"
    /\ handle[1] = "reachable"
    /\ handle[2] = "reachable"
    /\ digests[1].emitted
    /\ digests[2].emitted
    /\ Len(digests[1].bytes) = AWS_MD5_LEN
    /\ Len(digests[2].bytes) = AWS_MD5_LEN
    /\ digests[1].bytes # digests[2].bytes

\* the errors of a finalize call raised before the library's finalize step
EarlyFinalizeErrors ==
    {"CallbackInfoError", "ArgCountError", "InvalidHandleError", "TypeError",
     "ArrayBufferError"}

\* A finalize call that fails before the library's finalize step changes
\* no context, no emitted digest and no handle.
FailedFinalizeKeepsContext ==
    [][(ret'.op \in {"hash_digest", "hmac_digest"}
          /\ ret'.exc \in EarlyFinalizeErrors)
       => \A h \in Handles, nargs \in {1, 2}, env \in DigestEnv,
             arg \in TruncArgs, ub \in {"proceed", "fault"} :
            (\/ hash_digest(env, nargs, h, arg, ub)
             \/ hmac_digest(env, nargs, h, arg, ub))
            => UNCHANGED <<ctx, digests, handle>>]_vars

\* C19: a finalize call that fails before the library's finalize step
\* leaves the context as it was, and on a context that is ACTIVE after such
\* a failure of its own engine's finalize the next well-formed update or
\* finalize call succeeds.
C19_FailedFinalizeRecoverable ==
    [][/\ (ret'.op \in {"hash_digest", "hmac_digest"}
             /\ ret'.exc \in EarlyFinalizeErrors)
          => \A h \in Handles, nargs \in {1, 2}, env \in DigestEnv,
                arg \in TruncArgs, ub \in {"proceed", "fault"} :
               (\/ hash_digest(env, nargs, h, arg, ub)
                \/ hmac_digest(env, nargs, h, arg, ub))
               => UNCHANGED <<ctx, digests, handle>>
       /\ \A h \in CtxIds :
            (/\ ret.op = (IF IsHash(h) THEN "hash_digest" ELSE "hmac_digest")
             /\ ret.exc \in EarlyFinalizeErrors
             /\ ret.h = h
             /\ ret'.h = h
             /\ ctx[h].state = "ACTIVE")
            => /\ \A d \in Data : UpdateCall(h, d) => ret'.exc = "none"
               /\ \A arg \in WellFormedTrunc :
                    DigestCall(h, arg)
                    => (ret'.exc = "none" /\ digests'[h].emitted)]_vars

\* the step is a call of one of the three create functions
CreateCall ==
    \/ \E env \in NewEnv : hash_md5_new(env) \/ hash_sha256_new(env)
    \/ \E env \in HmacNewEnv, nargs \in {0, 1}, secret \in SecretArgs :
         hmac_sha256_new(env, nargs, secret)

\* C20: no create call returns a handle to a destroyed context: a create
\* call that returns an external returns it for a context that is ACTIVE
\* and registered under that external, and a create call that destroys a
\* context returns null and registers no external for it.
C20_NoHandleToDestroyed ==
    [][(ret'.op \in {"hash_md5_new", "hash_sha256_new", "hmac_sha256_new"}
          /\ CreateCall)
       => /\ ret'.val = "external"
               => /\ ret'.h # 0
                  /\ ctx'[ret'.h].state = "ACTIVE"
                  /\ ctx'[ret'.h].destroys = 0
                  /\ handle'[ret'.h] = "reachable"
          /\ \A c \in CtxIds :
               ctx'[c].destroys # ctx[c].destroys
               => (ret'.val = "null" /\ handle'[c] = "none")]_vars

\* C20 witness: after one hmac_sha256_new call destroyed its context on
\* the failure path and returned null, a second one has returned an
\* external for an ACTIVE context.
C20_Witness ==
    /\ ctx[1].alg = "sha256_hmac"
    /\ ctx[1].state = "DESTROYED"
    /\ handle[1] = "none"
    /\ ret.op = "hmac_sha256_new"
    /\ ret.val = "external"
    /\ ret.h = 2
    /\ ctx[2].state = "ACTIVE"
    /\ handle[2] = "reachable"

====
